---- MODULE Spec2Model ----
(***************************************************************************)
(* Model of the kota command dispatcher (KotaCli::handle_command and the   *)
(* session helpers of src/kota_cli/command.rs) together with the session   *)
(* context store it drives.                                                *)
(*                                                                         *)
(* An input line is a sequence of chunks: "/" is the slash character, " "  *)
(* one whitespace character, every other chunk a run of non-blank          *)
(* characters.  starts_with, strip_prefix and trim are computed on that    *)
(* sequence, so "/load", "/load ", "/loadx" and "/load  s2 " are four      *)
(* different inputs.                                                       *)
(*                                                                         *)
(* The second part models the code search tool (GrepSearchTool::call and   *)
(* search_in_file of src/tools/grep_search.rs): the walk over a directory  *)
(* tree, one entry per step, with the pruning filter, the text-file test,  *)
(* the line loop and the cap on the number of matches.                     *)
(***************************************************************************)
EXTENDS Integers, Sequences, FiniteSets, TLC

(* ------------------------------ bounds --------------------------------- *)

\* Message bound of the session (with_max_messages); the shipped
\* configuration passes 100 (src/main.rs:33), the model scales it down.
MaxMessages == 2

\* Number of input lines the interactive loop reads in one behaviour.
MaxCommands == 3

(* ------------------------- program constants --------------------------- *)

\* .multi_turn(20)
MaxTurns == 20

\* Characters of a message that /history shows before it cuts.
HistoryLimit == 200

\* The storage root main() and delete_session() spell out.
DefaultRoot == "./.chat_sessions"

(* ------------------------------ strings -------------------------------- *)

StartsWith(s, p) ==
    /\ Len(s) >= Len(p)
    /\ SubSeq(s, 1, Len(p)) = p

StripPrefix(s, p) ==
    IF StartsWith(s, p) THEN SubSeq(s, Len(p) + 1, Len(s)) ELSE <<>>

RECURSIVE TrimStart(_)
TrimStart(s) ==
    IF s # <<>> /\ Head(s) = " " THEN TrimStart(Tail(s)) ELSE s

RECURSIVE TrimEnd(_)
TrimEnd(s) ==
    IF s # <<>> /\ s[Len(s)] = " " THEN TrimEnd(SubSeq(s, 1, Len(s) - 1)) ELSE s

Trim(s) == TrimEnd(TrimStart(s))

\* str::lines: split at line feeds, a carriage return before the line feed
\* dropped, no empty line after a final line feed.
RECURSIVE content_lines(_)
content_lines(content) ==
    IF content = <<>> THEN <<>>
    ELSE LET nls == { i \in DOMAIN content : content[i] = "\n" }
         IN  IF nls = {} THEN <<content>>
             ELSE LET nl   == CHOOSE i \in nls : \A j \in nls : i <= j
                      raw  == SubSeq(content, 1, nl - 1)
                      line == IF raw # <<>> /\ raw[Len(raw)] = "\r"
                              THEN SubSeq(raw, 1, Len(raw) - 1) ELSE raw
                 IN  <<line>> \o content_lines(SubSeq(content, nl + 1, Len(content)))

(* ------------------------------ inputs --------------------------------- *)

SessionIds == { <<"s1">>, <<"s2">> }

Roots == { DefaultRoot, "/tmp/sessions" }

AgentTypes == { "OpenAI", "Anthropic", "Cohere", "DeepSeek", "Ollama" }

ChatInputs == { <<"hi">>, <<"yo">> }

SlashInputs ==
    { <<"/", "quit">>, <<"/", "exit">>, <<"/", "quit", " ">>, <<"/", "QUIT">>,
      <<"/", "config">>, <<"/", "help">>, <<"/", "history">>,
      <<"/", "Help">>, <<"/", "foo">>, <<"/", "loadx">>,
      <<"/", "load">>, <<"/", "load", " ">>,
      <<"/", "load", " ", "s1">>, <<"/", "load", " ", " ", "s2", " ">>,
      <<"/", "delete">>, <<"/", "delete", " ">>,
      <<"/", "delete", " ", "s1">>, <<"/", "delete", " ", "s2", " ">> }

Inputs == SlashInputs \cup ChatInputs

Replies == { <<"ok">> }

ExchangeErrors == { <<"MaxDepthError">>, <<"CompletionError">>, <<"Cancelled">> }

(* ----------------------------- messages -------------------------------- *)

User(text) == [role |-> "user", content |-> text]

Assistant(text) == [role |-> "assistant", content |-> text]

Line(tag, arg) == [tag |-> tag, arg |-> arg]

(* ------------------------ session context store ------------------------ *)

NoRecord == [exists |-> FALSE, msgs |-> <<>>]

Record(msgs) == [exists |-> TRUE, msgs |-> msgs]

EmptyStore == [k \in Roots \X SessionIds |-> NoRecord]

KeepLast(s, n) ==
    IF Len(s) > n THEN SubSeq(s, Len(s) - n + 1, Len(s)) ELSE s

\* ContextManager::add_message: append, then evict the oldest beyond the bound.
add_message(msgs, m) == KeepLast(Append(msgs, m), MaxMessages)

\* ContextManager::save: overwrite the record of (root, id); a failed save
\* leaves the store as it was.
save(st, root, sid, msgs, ok) ==
    IF ok THEN [st EXCEPT ![<<root, sid>>] = Record(msgs)] ELSE st

\* ContextManager::load: "true" with the record's messages, "false" when no
\* record exists, "err" on a storage failure; the last two keep the messages.
load_result(st, root, sid, ok) ==
    IF ~ok THEN "err"
    ELSE IF st[<<root, sid>>].exists THEN "true" ELSE "false"

load(st, root, sid, msgs, ok) ==
    IF load_result(st, root, sid, ok) = "true" THEN st[<<root, sid>>].msgs ELSE msgs

\* ContextManager::list_sessions: the identifiers with a record under root.
list_sessions(st, root) == { sid \in SessionIds : st[<<root, sid>>].exists }

\* ContextManager::delete_session on a handle for (root, id).
delete_result(st, root, sid, ok) ==
    IF ~ok THEN "err"
    ELSE IF st[<<root, sid>>].exists THEN "true" ELSE "false"

delete_record(st, root, sid, ok) ==
    IF ok THEN [st EXCEPT ![<<root, sid>>] = NoRecord] ELSE st

\* ContextManager::switch_session: the active identifier changes, the new
\* session starts with an empty message sequence, storage is not touched.
switch_session(id) == [session_id |-> id, messages |-> <<>>]

(* --------------------------- invocation loop --------------------------- *)

\* multi_turn with one variant given a larger cap.
multi_turn_ollama_21(a) ==
    CASE a = "OpenAI"    -> MaxTurns
      [] a = "Anthropic" -> MaxTurns
      [] a = "Cohere"    -> MaxTurns
      [] a = "DeepSeek"  -> MaxTurns
      [] a = "Ollama"    -> MaxTurns + 1

\* The turn cap each provider variant passes to the streaming request.
multi_turn(a) ==
    CASE a = "OpenAI"    -> MaxTurns
      [] a = "Anthropic" -> MaxTurns
      [] a = "Cohere"    -> MaxTurns
      [] a = "DeepSeek"  -> MaxTurns
      [] a = "Ollama"    -> MaxTurns

\* agent.stream_prompt(input).with_hook(hook).multi_turn(20): the request
\* carries the input line as prompt; no history is attached to it.
stream_prompt(a, inp, msgs) ==
    [prompt |-> inp, chat_history |-> <<>>, max_depth |-> multi_turn(a)]

NoRequest == [prompt |-> <<>>, chat_history |-> <<>>, max_depth |-> 0]

\* The tool cycle gives up once the number of turns run reaches the cap.
turn_limit_exceeded(n, depth) == n >= depth

NoResult == [kind |-> "none", val |-> <<>>]

Ok(reply) == [kind |-> "ok", val |-> reply]

Err(e) == [kind |-> "err", val |-> e]

(* ------------------------------ dispatcher ----------------------------- *)

LoadPrefix == <<"/", "load", " ">>

DeletePrefix == <<"/", "delete", " ">>

\* Arm without the catch-all arm for slash lines.
Arm_slash_falls_through(inp) ==
    IF inp = <<"/", "quit">> \/ inp = <<"/", "exit">> THEN "quit"
    ELSE IF inp = <<"/", "config">> THEN "config"
    ELSE IF inp = <<"/", "help">> THEN "help"
    ELSE IF inp = <<"/", "history">> THEN "history"
    ELSE IF StartsWith(inp, LoadPrefix) THEN "load"
    ELSE IF StartsWith(inp, DeletePrefix) THEN "delete"
    ELSE "chat"

\* The arm of handle_command's match that takes the input (first match wins).
Arm(inp) ==
    IF inp = <<"/", "quit">> \/ inp = <<"/", "exit">> THEN "quit"
    ELSE IF inp = <<"/", "config">> THEN "config"
    ELSE IF inp = <<"/", "help">> THEN "help"
    ELSE IF inp = <<"/", "history">> THEN "history"
    ELSE IF StartsWith(inp, LoadPrefix) THEN "load"
    ELSE IF StartsWith(inp, DeletePrefix) THEN "delete"
    ELSE IF StartsWith(inp, <<"/">>) THEN "unknown"
    ELSE "chat"

\* The role heading of a history entry.
role_label(role) ==
    CASE role = "user"      -> "User"
      [] role = "assistant" -> "Assistant"
      [] OTHER              -> "Unknown"

\* The content of a history entry cut as soon as it reaches the limit.
truncate_chars_inclusive(content) ==
    IF Len(content) >= HistoryLimit
    THEN SubSeq(content, 1, HistoryLimit) \o <<"...">>
    ELSE content

\* The content of a history entry: beyond 200 characters, the first 200
\* followed by "...".  In a content that is to be cut every chunk is one
\* character.
truncate_chars(content) ==
    IF Len(content) > HistoryLimit
    THEN SubSeq(content, 1, HistoryLimit) \o <<"...">>
    ELSE content

\* One history entry: number and role, the content line by line, a blank.
history_entry(msgs, i) ==
    LET ls == content_lines(truncate_chars(msgs[i].content))
    IN  <<Line("HistoryEntry", <<ToString(i), role_label(msgs[i].role)>>)>>
        \o [k \in DOMAIN ls |-> Line("HistoryLine", ls[k])]
        \o <<Line("", <<>>)>>

RECURSIVE history_entries(_, _)
history_entries(msgs, i) ==
    IF i > Len(msgs) THEN <<>>
    ELSE history_entry(msgs, i) \o history_entries(msgs, i + 1)

\* show_history: a header, one entry per message in order, the total.
show_history(msgs, sid) ==
    IF msgs = <<>>
    THEN <<Line("NoConversationHistory", <<>>), Line("CurrentSession", sid),
           Line("", <<>>)>>
    ELSE <<Line("ConversationHistory", sid), Line("", <<>>)>>
         \o history_entries(msgs, 1)
         \o <<Line("TotalMessages", <<ToString(Len(msgs))>>), Line("", <<>>)>>

\* list_sessions: reads the store's listing, changes nothing.
list_sessions_cmd(st, root, ok) ==
    [out |-> IF ~ok THEN <<Line("FailedToListSessions", <<"StoreError">>)>>
             ELSE IF list_sessions(st, root) = {}
                  THEN <<Line("NoSavedSessions", <<>>)>>
                  ELSE <<Line("AvailableSessions", <<>>), Line("UseLoadHint", <<>>)>>,
     trace |-> <<"list_sessions">>]

\* load_session saving the current messages under the new identifier.
load_session_save_under_new(st, root, sid, msgs, id, save_ok, load_ok) ==
    LET sw  == switch_session(id)
        st1 == save(st, root, sw.session_id, msgs, save_ok)
        res == load_result(st1, root, sw.session_id, load_ok)
    IN  [store      |-> st1,
         session_id |-> sw.session_id,
         messages   |-> load(st1, root, sw.session_id, sw.messages, load_ok),
         out        |-> (IF save_ok THEN <<>>
                         ELSE <<Line("WarningFailedToSaveCurrent", <<"StoreError">>)>>)
                        \o (CASE res = "true"  -> <<Line("SuccessfullyLoaded", id)>>
                              [] res = "false" -> <<Line("NotFoundCreatedNew", id)>>
                              [] res = "err"   -> <<Line("FailedToLoad", id)>>),
         trace      |-> <<"save", "switch_session", "load">>,
         ret        |-> "Ok"]

\* load_session changing the identifier but keeping the messages in memory.
load_session_keep_messages(st, root, sid, msgs, id, save_ok, load_ok) ==
    LET st1 == save(st, root, sid, msgs, save_ok)
        res == load_result(st1, root, id, load_ok)
    IN  [store      |-> st1,
         session_id |-> id,
         messages   |-> load(st1, root, id, msgs, load_ok),
         out        |-> (IF save_ok THEN <<>>
                         ELSE <<Line("WarningFailedToSaveCurrent", <<"StoreError">>)>>)
                        \o (CASE res = "true"  -> <<Line("SuccessfullyLoaded", id)>>
                              [] res = "false" -> <<Line("NotFoundCreatedNew", id)>>
                              [] res = "err"   -> <<Line("FailedToLoad", id)>>),
         trace      |-> <<"save", "switch_session", "load">>,
         ret        |-> "Ok"]

\* load_session without the save of the current session.
load_session_no_save(st, root, sid, msgs, id, save_ok, load_ok) ==
    LET sw  == switch_session(id)
        res == load_result(st, root, sw.session_id, load_ok)
    IN  [store      |-> st,
         session_id |-> sw.session_id,
         messages   |-> load(st, root, sw.session_id, sw.messages, load_ok),
         out        |-> (CASE res = "true"  -> <<Line("SuccessfullyLoaded", id)>>
                           [] res = "false" -> <<Line("NotFoundCreatedNew", id)>>
                           [] res = "err"   -> <<Line("FailedToLoad", id)>>),
         trace      |-> <<"switch_session", "load">>,
         ret        |-> "Ok"]

\* load_session: save the current session, switch, load.
load_session(st, root, sid, msgs, id, save_ok, load_ok) ==
    LET st1 == save(st, root, sid, msgs, save_ok)
        sw  == switch_session(id)
        res == load_result(st1, root, sw.session_id, load_ok)
    IN  [store      |-> st1,
         session_id |-> sw.session_id,
         messages   |-> load(st1, root, sw.session_id, sw.messages, load_ok),
         out        |-> (IF save_ok THEN <<>>
                         ELSE <<Line("WarningFailedToSaveCurrent", <<"StoreError">>)>>)
                        \o (CASE res = "true"  -> <<Line("SuccessfullyLoaded", id)>>
                              [] res = "false" -> <<Line("NotFoundCreatedNew", id)>>
                              [] res = "err"   -> <<Line("FailedToLoad", id)>>),
         trace      |-> <<"save", "switch_session", "load">>,
         ret        |-> "Ok"]

\* delete_session without the check for the active session.
delete_session_unguarded(st, sid, id, new_ok, del_ok) ==
    IF ~new_ok
    THEN [store |-> st,
          out   |-> <<>>,
          trace |-> <<"ContextManager::new">>,
          ret   |-> "Err"]
    ELSE LET res == delete_result(st, DefaultRoot, id, del_ok)
         IN  [store |-> IF res = "true" THEN delete_record(st, DefaultRoot, id, del_ok)
                        ELSE st,
              out   |-> (CASE res = "true"  -> <<Line("SuccessfullyDeleted", id)>>
                           [] res = "false" -> <<Line("SessionNotFound", id)>>
                           [] res = "err"   -> <<Line("FailedToDelete", id)>>),
              trace |-> <<"ContextManager::new", "delete_session">>,
              ret   |-> "Ok"]

\* delete_session: refuse the active session; otherwise build a handle on
\* the default root (its construction may fail and the error propagates)
\* and delete through it.
delete_session(st, sid, id, new_ok, del_ok) ==
    IF id = sid
    THEN [store |-> st,
          out   |-> <<Line("CannotDeleteActive", <<>>), Line("SwitchFirstHint", <<>>)>>,
          trace |-> <<>>,
          ret   |-> "Ok"]
    ELSE IF ~new_ok
    THEN [store |-> st,
          out   |-> <<>>,
          trace |-> <<"ContextManager::new">>,
          ret   |-> "Err"]
    ELSE LET res == delete_result(st, DefaultRoot, id, del_ok)
         IN  [store |-> IF res = "true" THEN delete_record(st, DefaultRoot, id, del_ok)
                        ELSE st,
              out   |-> (CASE res = "true"  -> <<Line("SuccessfullyDeleted", id)>>
                           [] res = "false" -> <<Line("SessionNotFound", id)>>
                           [] res = "err"   -> <<Line("FailedToDelete", id)>>),
              trace |-> <<"ContextManager::new", "delete_session">>,
              ret   |-> "Ok"]

\* The Ok arm saving before it appends the reply.
on_response_ok_save_first(st, root, sid, msgs, reply, save_ok) ==
    [messages |-> add_message(msgs, Assistant(reply)),
     store    |-> save(st, root, sid, msgs, save_ok),
     out      |-> (IF save_ok THEN <<>>
                   ELSE <<Line("FailedToSaveContext", <<"StoreError">>)>>)
                  \o <<Line("TotalTokensUsed", <<>>)>>,
     trace    |-> <<"save", "add_message:assistant">>]

\* The Ok arm pushing the reply onto the log without the bound.
on_response_ok_raw_push(st, root, sid, msgs, reply, save_ok) ==
    LET msgs1 == Append(msgs, Assistant(reply))
    IN  [messages |-> msgs1,
         store    |-> save(st, root, sid, msgs1, save_ok),
         out      |-> (IF save_ok THEN <<>>
                       ELSE <<Line("FailedToSaveContext", <<"StoreError">>)>>)
                      \o <<Line("TotalTokensUsed", <<>>)>>,
         trace    |-> <<"add_message:assistant", "save">>]

\* The Ok arm of the exchange: append the reply, save, report.
on_response_ok(st, root, sid, msgs, reply, save_ok) ==
    LET msgs1 == add_message(msgs, Assistant(reply))
    IN  [messages |-> msgs1,
         store    |-> save(st, root, sid, msgs1, save_ok),
         out      |-> (IF save_ok THEN <<>>
                       ELSE <<Line("FailedToSaveContext", <<"StoreError">>)>>)
                      \o <<Line("TotalTokensUsed", <<>>)>>,
         trace    |-> <<"add_message:assistant", "save">>]

\* The Err arm taking the user message back out of the log.
on_response_err_rollback(st, msgs, e) ==
    [messages |-> SubSeq(msgs, 1, Len(msgs) - 1),
     store    |-> st,
     out      |-> <<Line("FailedToGetAIResponse", e),
                    Line("CheckApiKeyAndNetwork", <<>>)>>,
     trace    |-> <<>>]

\* The Err arm printing a fixed text instead of the error.
on_response_err_generic(st, msgs, e) ==
    [messages |-> msgs,
     store    |-> st,
     out      |-> <<Line("FailedToGetAIResponse", <<>>),
                    Line("CheckApiKeyAndNetwork", <<>>)>>,
     trace    |-> <<>>]

\* The Err arm of the exchange: report the error, touch nothing.
on_response_err(st, msgs, e) ==
    [messages |-> msgs,
     store    |-> st,
     out      |-> <<Line("FailedToGetAIResponse", e),
                    Line("CheckApiKeyAndNetwork", <<>>)>>,
     trace    |-> <<>>]

(* ----------------------------- code search ----------------------------- *)

\* args.max_results.unwrap_or(100)
DefaultMaxResults == 100

\* Largest max_results a call passes explicitly.
MaxResultsBound == 3

\* A file or directory name is a sequence of chunks, "." being the dot
\* character; file contents, lines and patterns are sequences of one-byte
\* characters.

\* str::to_lowercase on the chunks that occur in the names of the model.
to_lowercase(c) ==
    CASE c = "TXT"      -> "txt"
      [] c = "README"   -> "readme"
      [] c = "Makefile" -> "makefile"
      [] c = "Notes"    -> "notes"
      [] OTHER          -> c

\* Path::extension: what follows the last dot of the file name; None when
\* there is no dot or the only dot leads the name.
extension(name) ==
    LET dots == { i \in DOMAIN name : name[i] = "." }
        last == IF dots = {} THEN 0
                ELSE CHOOSE i \in dots : \A j \in dots : j <= i
    IN  IF last <= 1 THEN [some |-> FALSE, ext |-> <<>>]
        ELSE [some |-> TRUE, ext |-> SubSeq(name, last + 1, Len(name))]

TextExtensions ==
    { "rs", "py", "js", "ts", "jsx", "tsx", "html", "css", "scss", "sass",
      "json", "xml", "yaml", "yml", "toml", "md", "txt", "csv", "sql", "sh",
      "bash", "zsh", "fish", "ps1", "bat", "cmd", "c", "cpp", "cc", "cxx",
      "h", "hpp", "hxx", "java", "kt", "scala", "go", "php", "rb", "swift",
      "dart", "r", "m", "mm", "pl", "pm", "lua", "vim", "el", "clj", "cljs",
      "hs", "ml", "fs", "fsx", "ex", "exs", "erl", "hrl", "nim", "cr", "d",
      "zig", "v", "jl", "rkt", "scm", "ss", "lisp", "lsp", "cl", "asd",
      "pro", "prolog", "dockerfile", "makefile", "mk", "cmake", "gradle",
      "sbt", "pom", "gemfile", "rakefile", "podfile", "cartfile",
      "brewfile", "vagrantfile", "gitignore", "gitattributes",
      "editorconfig", "eslintrc", "prettierrc", "babelrc", "tsconfig",
      "jsconfig", "webpack", "rollup", "vite", "package", "lock", "sum",
      "mod", "ini", "cfg", "conf", "config", "properties", "env", "example",
      "sample", "template", "stub", "proto", "graphql", "gql", "schema",
      "prisma", "ddl", "dml", "hql", "cql", "psql", "mysql", "sqlite", "db",
      "log", "out", "err", "trace", "debug", "info", "warn", "error",
      "fatal" }

TextFileNames ==
    { "readme", "license", "changelog", "authors", "contributors",
      "makefile", "dockerfile", "vagrantfile", "gemfile", "rakefile",
      "podfile", "cartfile", "brewfile", "procfile", "justfile", "taskfile",
      "buildfile", "gradlew", "mvnw" }

\* is_text_file falling back to the part before the extension when the
\* extension is not on the list.
is_text_file_stem_fallback(name) ==
    LET e == extension(name)
    IN  IF e.some
        THEN \/ Len(e.ext) = 1 /\ to_lowercase(e.ext[1]) \in TextExtensions
             \/ to_lowercase(name[1]) \in TextFileNames
        ELSE Len(name) = 1 /\ to_lowercase(name[1]) \in TextFileNames

\* is_text_file: the lower-cased extension against the extension list, and
\* only for a name without extension the lower-cased name against the
\* file-name list.
is_text_file(name) ==
    LET e == extension(name)
    IN  IF e.some
        THEN Len(e.ext) = 1 /\ to_lowercase(e.ext[1]) \in TextExtensions
        ELSE Len(name) = 1 /\ to_lowercase(name[1]) \in TextFileNames

SkipDirectories ==
    { <<"target">>, <<"node_modules">>, <<"__pycache__">>, <<".", "git">>,
      <<".", "svn">>, <<".", "hg">>, <<".", "bzr">>, <<"dist">>,
      <<"build">>, <<"out">>, <<"bin">>, <<"obj">>, <<".", "vscode">>,
      <<".", "idea">>, <<".", "vs">>, <<"coverage">>, <<".", "nyc_output">>,
      <<".", "pytest_cache">>, <<".", "tox">>, <<"venv">>, <<"env">>, <<".",
      "env">>, <<"vendor">>, <<"deps">>, <<"_build">>, <<".", "elixir_ls">>,
      <<".", "mix">>, <<"tmp">>, <<"temp">>, <<"cache">>, <<".", "cache">>,
      <<"logs">>, <<"log">>, <<".", "DS_Store">>, <<"Thumbs", ".", "db">> }

\* should_skip_directory without the node_modules entry.
should_skip_directory_no_node_modules(dir_name) ==
    dir_name \in SkipDirectories \ { <<"node_modules">> }

should_skip_directory(dir_name) == dir_name \in SkipDirectories

\* The filter_entry closure: a directory passes unless its name is on the
\* list or begins with a dot; anything that is not a directory passes.
filter_entry(e) ==
    IF e.kind = "dir"
    THEN ~should_skip_directory(e.name) /\ ~StartsWith(e.name, <<".">>)
    ELSE TRUE

\* Regex::new on the patterns of the model: ordinary characters and groups;
\* a pattern compiles when its parentheses balance.
RECURSIVE balanced(_, _)
balanced(q, depth) ==
    IF q = <<>> THEN depth = 0
    ELSE IF Head(q) = "(" THEN balanced(Tail(q), depth + 1)
    ELSE IF Head(q) = ")" THEN depth > 0 /\ balanced(Tail(q), depth - 1)
    ELSE balanced(Tail(q), depth)

regex_new(q) ==
    IF balanced(q, 0)
    THEN [ok |-> TRUE,
          literal |-> SelectSeq(q, LAMBDA c : c \notin { "(", ")" }),
          error |-> <<>>]
    ELSE [ok |-> FALSE, literal |-> <<>>,
          error |-> <<"regex parse error: unclosed group">>]

\* Regex::find returning the rightmost occurrence.
regex_find_rightmost(lit, line) ==
    LET at == { i \in 1..(Len(line) - Len(lit) + 1) :
                  SubSeq(line, i, i + Len(lit) - 1) = lit }
    IN  IF at = {} THEN [found |-> FALSE, start |-> 0, end |-> 0]
        ELSE LET i == CHOOSE k \in at : \A j \in at : k >= j
             IN  [found |-> TRUE, start |-> i - 1, end |-> i - 1 + Len(lit)]

\* Regex::find: the leftmost match in the line, as byte offsets.
regex_find(lit, line) ==
    LET at == { i \in 1..(Len(line) - Len(lit) + 1) :
                  SubSeq(line, i, i + Len(lit) - 1) = lit }
    IN  IF at = {} THEN [found |-> FALSE, start |-> 0, end |-> 0]
        ELSE LET i == CHOOSE k \in at : \A j \in at : k <= j
             IN  [found |-> TRUE, start |-> i - 1, end |-> i - 1 + Len(lit)]

\* Path::to_string_lossy of a path given by its components.
RECURSIVE path_string(_)
path_string(p) ==
    IF p = <<>> THEN <<>>
    ELSE IF Len(p) = 1 THEN p[1]
    ELSE p[1] \o <<"/">> \o path_string(Tail(p))

SearchMatch(p, n, line, mat) ==
    [file_path |-> path_string(p), line_number |-> n, line_content |-> line,
     match_start |-> mat.start, match_end |-> mat.end]

\* The line loop of search_in_file with the cap tested after the match.
RECURSIVE scan_lines_cap_after(_, _, _, _, _, _, _)
scan_lines_cap_after(p, ls, i, lit, max_results, current_matches, acc) ==
    IF i > Len(ls)
    THEN [matches |-> acc, scanned |-> Len(ls)]
    ELSE LET mat  == regex_find(lit, ls[i])
             acc1 == IF mat.found
                     THEN Append(acc, SearchMatch(p, i, ls[i], mat))
                     ELSE acc
         IN  IF current_matches + Len(acc1) > max_results
             THEN [matches |-> acc1, scanned |-> i]
             ELSE scan_lines_cap_after(p, ls, i + 1, lit, max_results,
                                       current_matches, acc1)

\* The line loop of search_in_file: i is the 1-indexed line about to be
\* scanned, acc the matches of this file so far; `scanned` is the number of
\* lines the regex was run on.
RECURSIVE scan_lines(_, _, _, _, _, _, _)
scan_lines(p, ls, i, lit, max_results, current_matches, acc) ==
    IF i > Len(ls) \/ current_matches + Len(acc) >= max_results
    THEN [matches |-> acc, scanned |-> i - 1]
    ELSE LET mat == regex_find(lit, ls[i])
         IN  scan_lines(p, ls, i + 1, lit, max_results, current_matches,
                        IF mat.found
                        THEN Append(acc, SearchMatch(p, i, ls[i], mat))
                        ELSE acc)

\* search_in_file: nothing when the cap is already reached, nothing for a
\* file that cannot be read as text, else the matches of the line loop.
search_in_file(p, file, lit, max_results, current_matches) ==
    IF current_matches >= max_results
    THEN [matches |-> <<>>, scanned |-> 0, opened |-> FALSE]
    ELSE IF ~file.readable
    THEN [matches |-> <<>>, scanned |-> 0, opened |-> TRUE]
    ELSE LET r == scan_lines(p, content_lines(file.content), 1, lit, max_results,
                             current_matches, <<>>)
         IN  [matches |-> r.matches, scanned |-> r.scanned, opened |-> TRUE]

(* The file system: a tree of entries. *)

File(name, content) ==
    [kind |-> "file", name |-> name, readable |-> TRUE,
     content |-> content, children |-> <<>>]

\* A file whose bytes are not valid UTF-8: read_to_string fails on it.
BinaryFile(name) ==
    [kind |-> "file", name |-> name, readable |-> FALSE,
     content |-> <<>>, children |-> <<>>]

Directory(name, children) ==
    [kind |-> "dir", name |-> name, readable |-> TRUE,
     content |-> <<>>, children |-> children]

\* A directory the process may not list.
LockedDirectory(name) ==
    [kind |-> "dir", name |-> name, readable |-> FALSE,
     content |-> <<>>, children |-> <<>>]

Symlink(name) ==
    [kind |-> "symlink", name |-> name, readable |-> TRUE,
     content |-> <<>>, children |-> <<>>]

\* What the walk yields in place of the entries of a directory it cannot list.
WalkError(name) ==
    [kind |-> "error", name |-> name, readable |-> FALSE,
     content |-> <<>>, children |-> <<>>]

Foo == <<"f", "o", "o">>

\* a.txt, b.py and node_modules/c.txt under proj.
SmallProject ==
    Directory(<<"proj">>,
      << File(<<"a", ".", "txt">>, <<"f", "o", "o", " ", "b", "a", "r">>),
         File(<<"b", ".", "py">>, Foo),
         Directory(<<"node_modules">>, << File(<<"c", ".", "txt">>, Foo) >>) >>)

LargeProject ==
    Directory(<<"proj">>,
      << File(<<"a", ".", "txt">>, <<"f", "o", "o", " ", "b", "a", "r", "\n", "b", "a", "z", "\n", "f", "o", "o", " ", "f", "o", "o", "\n">>),
         Directory(<<".", "git">>, << File(<<"x", ".", "txt">>, Foo) >>),
         File(<<"b", ".", "py">>, Foo),
         Directory(<<"node_modules">>, << File(<<"c", ".", "txt">>, Foo) >>),
         Symlink(<<"link">>),
         Directory(<<"src">>,
           << File(<<"main", ".", "rs">>, <<"f", "n", " ", "f", "o", "o", "\r", "\n", "\n", "b", "a", "r">>),
              File(<<"data", ".", "bin">>, Foo),
              BinaryFile(<<"blob", ".", "txt">>),
              Directory(<<"target">>, << File(<<"out", ".", "txt">>, Foo) >>),
              File(<<"README">>, Foo) >>),
         LockedDirectory(<<"locked">>),
         Directory(<<"Build">>,
           << File(<<"y", ".", "TXT">>, Foo),
              File(<<"README", ".", "bin">>, Foo),
              File(<<".", "gitignore">>, Foo),
              File(<<"Notes">>, Foo) >>),
         File(<<".", "notes", ".", "txt">>, Foo) >>)

\* The working directory with one project in it.
Disks ==
    { Directory(<<".">>, <<SmallProject>>),
      Directory(<<".">>, <<LargeProject>>) }

\* Path::exists and the entry a path names, the path being resolved from
\* the working directory.
RECURSIVE resolve(_, _)
resolve(dir, p) ==
    IF p = <<>> THEN [exists |-> TRUE, node |-> dir]
    ELSE IF p[1] = <<".">> THEN resolve(dir, Tail(p))
    ELSE LET hits == { i \in DOMAIN dir.children : dir.children[i].name = p[1] }
         IN  IF dir.kind # "dir" \/ hits = {}
             THEN [exists |-> FALSE, node |-> dir]
             ELSE resolve(dir.children[CHOOSE i \in hits : TRUE], Tail(p))

RootPaths ==
    { << <<".">> >>,
      << <<"proj">> >>,
      << <<"missing">> >>,
      << <<"proj">>, <<"src">> >>,
      << <<"proj">>, <<"node_modules">> >>,
      << <<"proj">>, <<"a", ".", "txt">> >> }

Queries ==
    { <<"f", "o", "o">>, <<"b", "a", "r">>, <<"o">>, <<"z">>, <<>>,
      <<"(">>, <<"(", "f", "o", "o", ")">>, <<"f", "o", "o", ")">> }

None == [some |-> FALSE, val |-> 0]

Some(n) == [some |-> TRUE, val |-> n]

unwrap_or(opt, d) == IF opt.some THEN opt.val ELSE d

MaxResultsArgs == { None } \cup { Some(n) : n \in 0..MaxResultsBound }

GrepSearchArgs == [root_path : RootPaths, query : Queries, max_results : MaxResultsArgs]

\* An entry of the walk: the node and the path it is reached by.  The root
\* entry carries the last component of root_path as its name.
Entry(p, node) == [path |-> p, node |-> node]

\* root_entry with the root handed to the filter without a name.
root_entry_unnamed(dsk, root_path) ==
    LET n == resolve(dsk, root_path).node
    IN  Entry(root_path, [n EXCEPT !.name = <<>>])

root_entry(dsk, root_path) ==
    LET n == resolve(dsk, root_path).node
    IN  Entry(root_path, [n EXCEPT !.name = root_path[Len(root_path)]])

\* What the walk puts in front of its pending entries when it descends.
read_dir(e) ==
    IF e.node.readable
    THEN [i \in DOMAIN e.node.children |->
            Entry(Append(e.path, e.node.children[i].name), e.node.children[i])]
    ELSE <<Entry(e.path, WalkError(e.node.name))>>

NoOutput == [kind |-> "none"]

FileNotFound(root_path) ==
    [kind |-> "Err", variant |-> "FileNotFound", path |-> path_string(root_path)]

GrepSearchOutput(root_path, query, matches, files, success, message) ==
    [kind |-> "Ok", root_path |-> path_string(root_path), query |-> query,
     matches |-> matches, total_matches |-> Len(matches),
     files_searched |-> files, success |-> success, message |-> message]

NotStarted == [kind |-> "start"]

\* call with the pattern compiled before root_path is looked at.
call_begin_regex_first(dsk, a) ==
    LET re == regex_new(a.query)
    IN  IF ~re.ok
        THEN GrepSearchOutput(a.root_path, a.query, <<>>, 0, FALSE,
                              <<"Invalid regex pattern: ">> \o re.error)
        ELSE IF ~resolve(dsk, a.root_path).exists
        THEN FileNotFound(a.root_path)
        ELSE NotStarted

\* call running the walk although the pattern did not compile.
call_begin_walk_invalid(dsk, a) ==
    IF ~resolve(dsk, a.root_path).exists
    THEN FileNotFound(a.root_path)
    ELSE NotStarted

\* The head of call: the root_path test, then the compilation of the
\* pattern; NotStarted when the walk is to begin.
call_begin(dsk, a) ==
    LET re == regex_new(a.query)
    IN  IF ~resolve(dsk, a.root_path).exists
        THEN FileNotFound(a.root_path)
        ELSE IF ~re.ok
        THEN GrepSearchOutput(a.root_path, a.query, <<>>, 0, FALSE,
                              <<"Invalid regex pattern: ">> \o re.error)
        ELSE NotStarted

\* The summary message of a finished walk.
summary(query, total_matches, max_results, files) ==
    IF total_matches = 0
    THEN <<"No matches found for '">> \o query
         \o <<"' in ", ToString(files), " files">>
    ELSE IF total_matches >= max_results
    THEN <<"Found ", ToString(total_matches), " matches (limit reached) for '">>
         \o query \o <<"' in ", ToString(files), " files">>
    ELSE <<"Found ", ToString(total_matches), " matches for '">>
         \o query \o <<"' in ", ToString(files), " files">>

\* The tail of call: the output built from what the walk collected.
call_end(a, matches, files) ==
    GrepSearchOutput(a.root_path, a.query, matches, files, TRUE,
                     summary(a.query, Len(matches),
                             unwrap_or(a.max_results, DefaultMaxResults), files))

(* --------------------------- observation hook -------------------------- *)

\* Bytes of a prompt that on_completion_call logs before it cuts.
PromptLogLimit == 100

\* Characters of a tool result that on_tool_result logs before it cuts.
ToolResultLimit == 200

\* Largest number of text chunks in a streamed response.
MaxChunks == 3

\* A text is a sequence of characters; "U+00E9" stands for a character of
\* two bytes, every other one takes one byte.
char_len(c) == IF c = "U+00E9" THEN 2 ELSE 1

\* str::len: the length in bytes, one for each character and one more for
\* each character of two bytes.
byte_len(text) ==
    Len(text) + Cardinality({ i \in DOMAIN text : char_len(text[i]) = 2 })

\* &text[..n]: the characters that fill the first n bytes; it panics when
\* byte n falls inside a character.
slice_to(text, n) ==
    LET cuts == { k \in 0..Len(text) : byte_len(SubSeq(text, 1, k)) = n }
    IN  IF cuts = {} THEN [panic |-> TRUE, text |-> <<>>]
        ELSE [panic |-> FALSE, text |-> SubSeq(text, 1, CHOOSE k \in cuts : TRUE)]

\* Option::unwrap on the token usage of a response: it panics on None.
unwrap(opt) == [panic |-> ~opt.some, val |-> opt.val]

SessionIdHook(sid) == [session_id |-> sid, enable_logging |-> TRUE]

with_logging(hook, enable) == [hook EXCEPT !.enable_logging = enable]

LogLine(sid, message) == [session |-> sid, message |-> message]

\* log printing whatever the flag says.
log_always(hook, message) == <<LogLine(hook.session_id, message)>>

\* SessionIdHook::log: one line with the session identifier when logging
\* is enabled, nothing otherwise.
log(hook, message) ==
    IF hook.enable_logging THEN <<LogLine(hook.session_id, message)>> ELSE <<>>

\* What a callback did: the lines it printed, or a panic.
Returns(lines) == [panic |-> FALSE, out |-> lines]

Panics == [panic |-> TRUE, out |-> <<>>]

on_tool_call(hook, tool_name, tool_call_id, tool_args) ==
    LET call_id == IF tool_call_id.some THEN tool_call_id.val ELSE "<no call ID>"
    IN  Returns(log(hook, <<"Calling tool: ", tool_name, " (ID: ", call_id,
                            ") with args: ">> \o tool_args))

on_tool_result(hook, tool_name, tool_args, tool_result) ==
    LET truncated_result ==
            IF Len(tool_result) > ToolResultLimit
            THEN SubSeq(tool_result, 1, ToolResultLimit) \o <<"...">>
            ELSE tool_result
    IN  Returns(log(hook, <<"Tool ", tool_name, " completed (args: ">>
                          \o tool_args \o <<") -> ">> \o truncated_result))

\* The text parts of a message joined by line feeds.
RECURSIVE join_text(_)
join_text(parts) ==
    IF parts = <<>> THEN <<>>
    ELSE IF Head(parts).kind # "text" THEN join_text(Tail(parts))
    ELSE LET rest == join_text(SelectSeq(Tail(parts), LAMBDA c : c.kind = "text"))
         IN  IF SelectSeq(Tail(parts), LAMBDA c : c.kind = "text") = <<>>
             THEN Head(parts).text
             ELSE Head(parts).text \o <<"\n">> \o rest

\* on_completion_call cutting the prompt at a character boundary.
on_completion_call_by_chars(hook, prompt, history_len) ==
    LET prompt_text == join_text(prompt)
        truncated_prompt ==
            IF Len(prompt_text) > PromptLogLimit
            THEN SubSeq(prompt_text, 1, PromptLogLimit) \o <<"...">>
            ELSE prompt_text
    IN  Returns(log(hook, <<"Sending prompt (history: ", ToString(history_len),
                            " messages): ">> \o truncated_prompt))

on_completion_call(hook, prompt, history_len) ==
    LET prompt_text == join_text(prompt)
        cut == slice_to(prompt_text, PromptLogLimit)
    IN  IF byte_len(prompt_text) > PromptLogLimit /\ cut.panic
        THEN Panics
        ELSE LET truncated_prompt ==
                     IF byte_len(prompt_text) > PromptLogLimit
                     THEN cut.text \o <<"...">>
                     ELSE prompt_text
             IN  Returns(log(hook, <<"Sending prompt (history: ",
                                     ToString(history_len), " messages): ">>
                                   \o truncated_prompt))

\* on_text_delta logging the aggregate in place of the fragment.
on_text_delta_logs_aggregate(hook, text_delta, aggregated_text) ==
    IF hook.enable_logging /\ Trim(text_delta) # <<>>
    THEN Returns(log(hook, <<"Text delta: ">> \o aggregated_text))
    ELSE Returns(<<>>)

on_text_delta(hook, text_delta, aggregated_text) ==
    IF hook.enable_logging /\ Trim(text_delta) # <<>>
    THEN Returns(log(hook, <<"Text delta: ">> \o text_delta))
    ELSE Returns(<<>>)

on_tool_call_delta(hook, tool_call_id, tool_name, tool_call_delta) ==
    IF hook.enable_logging
    THEN LET name == IF tool_name.some THEN tool_name.val ELSE "unknown"
         IN  Returns(log(hook, <<"Tool call delta: ", name, " (ID: ",
                                 tool_call_id, ") -> ">> \o tool_call_delta))
    ELSE Returns(<<>>)

on_stream_completion_response_finish(hook, token_usage) ==
    LET usage == unwrap(token_usage)
    IN  IF usage.panic THEN Panics
        ELSE Returns(log(hook, <<"Stream completed: ", ToString(usage.val)>>))

(* What the streaming loop hands to the hook. *)

TextPart(text) == [kind |-> "text", text |-> text]

ImagePart == [kind |-> "image", text |-> <<>>]

\* Prompts: short, of two text parts around an image, of 101 one-byte
\* characters, and of 101 characters with a two-byte one across byte 100.
Prompts ==
    { << TextPart(<<"h", "i">>) >>,
      << TextPart(<<"h", "i">>), ImagePart, TextPart(<<"y", "o">>) >>,
      << TextPart([i \in 1..(PromptLogLimit + 1) |-> "a"]) >>,
      << TextPart([i \in 1..(PromptLogLimit + 1) |->
                      IF i = PromptLogLimit THEN "U+00E9" ELSE "a"]) >> }

TextChunks == { <<"a">>, <<" ">>, <<"b", "c">> }

Streams == UNION { [1..n -> TextChunks] : n \in 0..MaxChunks }

NoneStr == [some |-> FALSE, val |-> ""]

SomeStr(str) == [some |-> TRUE, val |-> str]

NoTool == [some |-> FALSE, name |-> "", id |-> NoneStr, targs |-> <<>>,
           tresult |-> <<>>]

ToolUse(name, id, targs, tresult) ==
    [some |-> TRUE, name |-> name, id |-> id, targs |-> targs, tresult |-> tresult]

ToolUses ==
    { NoTool,
      ToolUse("grep_search", SomeStr("call_1"), <<"{", "}">>, <<"o", "k">>),
      ToolUse("grep_search", NoneStr, <<"{", "}">>,
              [i \in 1..(ToolResultLimit + 1) |-> "r"]) }

TokenUsages == { None, Some(7) }

\* A notification the loop fired, with the fragment and aggregate of a
\* text delta.
Event(point, delta, aggregate) ==
    [point |-> point, delta |-> delta, aggregate |-> aggregate]

\* The aggregate handed over with a fragment.
aggregate_text(aggregated, text_delta) == aggregated \o text_delta

(* ------------------------------- state --------------------------------- *)

VARIABLES
    agent,        \* self.agent: the configured provider variant
    ctx_root,     \* storage root self.context was constructed with
    session_id,   \* self.context.session_id()
    messages,     \* self.context.get_messages()
    store,        \* persisted records, by (root, session identifier)
    pc,           \* "idle" | "exchange" | "stopped"
    turns,        \* turns the current exchange has run
    request,      \* what the current exchange submitted to the agent
    result,       \* response_result of the last exchange
    input,        \* the line being handled / last handled
    ret,          \* handle_command's return: "Ok(true)" | "Ok(false)" | "Err"
    out,          \* lines the command printed
    trace,        \* store and agent calls the command made, in order
    pre,          \* session and store as they were when the line arrived
    ncmds,        \* lines read so far
    disk,         \* the file system a search runs on
    args,         \* GrepSearchArgs of the call
    spc,          \* "idle" | "ready" | "walk" | "done": position in call
    stack,        \* entries the walk has pending, the next one first
    all_matches,  \* all_matches of call
    files_searched, \* files_searched of call
    output,       \* what call returned
    opened,       \* paths handed to read_to_string, in order
    scanned,      \* <<path, line number>> of every line the regex ran on
    listed,       \* directories the walk listed, in order
    hook_sid,     \* session identifier the hook was built with
    hprompt,      \* prompt of the observed exchange
    hstream,      \* text chunks the provider streams
    husage,       \* token usage of the finished response
    htool,        \* tool the model asks for, if any
    hpc,          \* "idle" | "call" | "stream" | "delta" | "finish" |
                  \* "tool_call" | "tool_result" | "end"
    sent,         \* text chunks delivered so far
    aggregated,   \* text aggregated so far
    events,       \* notifications fired, in order
    hlog,         \* lines the hook printed, by enable_logging
    hpanic,       \* whether a callback panicked, by enable_logging
    hresponse     \* what the exchange returned, by enable_logging

dvars == <<agent, ctx_root, session_id, messages, store, pc, turns, request,
           result, input, ret, out, trace, pre, ncmds>>

svars == <<disk, args, spc, stack, all_matches, files_searched, output,
           opened, scanned, listed>>

hvars == <<hook_sid, hprompt, hstream, husage, htool, hpc, sent, aggregated,
           events, hlog, hpanic, hresponse>>

vars == <<dvars, svars, hvars>>

Snapshot == [session_id |-> session_id, messages |-> messages, store |-> store]

InitRecord == <<User(<<"hi">>)>>

InitStores ==
    { [k \in Roots \X SessionIds |->
          IF k[2] = <<"s2">> /\ k[1] \in rs THEN Record(InitRecord) ELSE NoRecord]
      : rs \in { {}, { DefaultRoot }, Roots } }

\* No exchange is being observed.
HookIdle ==
    /\ hook_sid = <<"s1">>
    /\ hprompt = <<>>
    /\ hstream = <<>>
    /\ husage = None
    /\ htool = NoTool
    /\ hpc = "idle"
    /\ sent = 0
    /\ aggregated = <<>>
    /\ events = <<>>
    /\ hlog = [b \in BOOLEAN |-> <<>>]
    /\ hpanic = [b \in BOOLEAN |-> FALSE]
    /\ hresponse = [b \in BOOLEAN |-> NoResult]

\* No search is running.
SearchIdle ==
    /\ disk = Directory(<<".">>, <<>>)
    /\ args = [root_path |-> << <<".">> >>, query |-> <<>>, max_results |-> None]
    /\ spc = "idle"
    /\ stack = <<>>
    /\ all_matches = <<>>
    /\ files_searched = 0
    /\ output = NoOutput
    /\ opened = <<>>
    /\ scanned = <<>>
    /\ listed = <<>>

\* Every provider variant on the default root, one on another root.
InitConfigs ==
    { <<a, DefaultRoot>> : a \in AgentTypes } \cup { <<"OpenAI", "/tmp/sessions">> }

Init ==
    /\ \E c \in InitConfigs : agent = c[1] /\ ctx_root = c[2]
    /\ session_id = <<"s1">>
    /\ messages = <<>>
    /\ store \in InitStores
    /\ pc = "idle"
    /\ turns = 0
    /\ request = NoRequest
    /\ result = NoResult
    /\ input = <<>>
    /\ ret = "none"
    /\ out = <<>>
    /\ trace = <<>>
    /\ pre = Snapshot
    /\ ncmds = 0
    /\ SearchIdle
    /\ HookIdle

\* A line arrives at handle_command.
Read(inp) ==
    /\ pc = "idle"
    /\ ncmds < MaxCommands
    /\ input' = inp
    /\ pre' = Snapshot
    /\ ncmds' = ncmds + 1
    /\ UNCHANGED <<agent, ctx_root>>
    /\ UNCHANGED <<svars, hvars>>

\* The locals of a command that opens no exchange.
NoExchange ==
    /\ turns' = 0
    /\ request' = NoRequest
    /\ result' = NoResult

\* The command prints its lines and the separator and returns Ok(true).
Report(lines, calls) ==
    /\ out' = lines \o <<Line("", <<>>)>>
    /\ trace' = calls
    /\ ret' = "Ok(true)"
    /\ pc' = "idle"
    /\ NoExchange

Quit(inp) ==
    /\ Read(inp)
    /\ Arm(inp) = "quit"
    /\ ret' = "Ok(false)"
    /\ pc' = "stopped"
    /\ out' = <<>>
    /\ trace' = <<>>
    /\ NoExchange
    /\ UNCHANGED <<session_id, messages, store>>

ShowConfig(inp) ==
    /\ Read(inp)
    /\ Arm(inp) = "config"
    /\ Report(<<Line("CurrentConfiguration", <<>>)>>, <<>>)
    /\ UNCHANGED <<session_id, messages, store>>

ShowHelp(inp) ==
    /\ Read(inp)
    /\ Arm(inp) = "help"
    /\ Report(<<Line("AvailableCommands", <<>>)>>, <<>>)
    /\ UNCHANGED <<session_id, messages, store>>

ShowHistory(inp) ==
    /\ Read(inp)
    /\ Arm(inp) = "history"
    /\ Report(show_history(messages, session_id), <<>>)
    /\ UNCHANGED <<session_id, messages, store>>

ListSessions(inp, list_ok) ==
    /\ Read(inp)
    /\ Arm(inp) = "load"
    /\ Trim(StripPrefix(inp, LoadPrefix)) = <<>>
    /\ LET r == list_sessions_cmd(store, ctx_root, list_ok)
       IN  Report(r.out, r.trace)
    /\ UNCHANGED <<session_id, messages, store>>

LoadSession(inp, save_ok, load_ok) ==
    /\ Read(inp)
    /\ Arm(inp) = "load"
    /\ Trim(StripPrefix(inp, LoadPrefix)) # <<>>
    /\ LET r == load_session(store, ctx_root, session_id, messages,
                             Trim(StripPrefix(inp, LoadPrefix)), save_ok, load_ok)
       IN  /\ store' = r.store
           /\ session_id' = r.session_id
           /\ messages' = r.messages
           /\ Report(r.out, r.trace)

DeleteSession(inp, new_ok, del_ok) ==
    /\ Read(inp)
    /\ Arm(inp) = "delete"
    /\ Trim(StripPrefix(inp, DeletePrefix)) # <<>>
    /\ LET r == delete_session(store, session_id,
                               Trim(StripPrefix(inp, DeletePrefix)), new_ok, del_ok)
       IN  /\ store' = r.store
           /\ IF r.ret = "Ok"
              THEN Report(r.out, r.trace)
              ELSE /\ out' = r.out
                   /\ trace' = r.trace
                   /\ ret' = "Err"
                   /\ pc' = "stopped"
                   /\ NoExchange
    /\ UNCHANGED <<session_id, messages>>

DeleteUsage(inp) ==
    /\ Read(inp)
    /\ Arm(inp) = "delete"
    /\ Trim(StripPrefix(inp, DeletePrefix)) = <<>>
    /\ Report(<<Line("UsageDelete", <<>>)>>, <<>>)
    /\ UNCHANGED <<session_id, messages, store>>

UnknownCommand(inp) ==
    /\ Read(inp)
    /\ Arm(inp) = "unknown"
    /\ Report(<<Line("UnknownCommand", inp), Line("TypeHelpHint", <<>>)>>, <<>>)
    /\ UNCHANGED <<session_id, messages, store>>

\* Free text: append the user message and open the streaming exchange.
BeginChat(inp) ==
    /\ Read(inp)
    /\ Arm(inp) = "chat"
    /\ messages' = add_message(messages, User(inp))
    /\ request' = stream_prompt(agent, inp, messages')
    /\ turns' = 0
    /\ result' = NoResult
    /\ out' = <<Line("Thinking", <<>>), Line("kota:", <<>>)>>
    /\ trace' = <<"add_message:user", "stream_prompt">>
    /\ ret' = "pending"
    /\ pc' = "exchange"
    /\ UNCHANGED <<session_id, store>>

\* The exchange ended with Err(e): the Err arm runs and the command returns.
FailWith(e) ==
    LET r == on_response_err(store, messages, e)
    IN  /\ result' = Err(e)
        /\ messages' = r.messages
        /\ store' = r.store
        /\ out' = out \o <<Line("", <<>>)>> \o r.out \o <<Line("", <<>>)>>
        /\ trace' = trace \o r.trace
        /\ ret' = "Ok(true)"
        /\ pc' = "idle"

\* One turn in which the model asks for tool calls.
ToolCallTurn ==
    /\ pc = "exchange"
    /\ ~turn_limit_exceeded(turns, request.max_depth)
    /\ turns' = turns + 1
    /\ IF turn_limit_exceeded(turns', request.max_depth)
       THEN FailWith(<<"MaxDepthError">>)
       ELSE UNCHANGED <<messages, store, result, out, trace, ret, pc>>
    /\ UNCHANGED <<agent, ctx_root, session_id, request, input, pre, ncmds>>
    /\ UNCHANGED <<svars, hvars>>

\* The turn in which the model gives its final answer.
FinalAnswer(reply, save_ok) ==
    /\ pc = "exchange"
    /\ ~turn_limit_exceeded(turns, request.max_depth)
    /\ turns' = turns + 1
    /\ LET r == on_response_ok(store, ctx_root, session_id, messages, reply, save_ok)
       IN  /\ result' = Ok(reply)
           /\ messages' = r.messages
           /\ store' = r.store
           /\ out' = out \o <<Line("", <<>>)>> \o r.out \o <<Line("", <<>>)>>
           /\ trace' = trace \o r.trace
    /\ ret' = "Ok(true)"
    /\ pc' = "idle"
    /\ UNCHANGED <<agent, ctx_root, session_id, request, input, pre, ncmds>>
    /\ UNCHANGED <<svars, hvars>>

\* A turn that ends the exchange with a provider failure or a cancellation.
ExchangeFailure(e) ==
    /\ pc = "exchange"
    /\ ~turn_limit_exceeded(turns, request.max_depth)
    /\ e # <<"MaxDepthError">>
    /\ turns' = turns + 1
    /\ FailWith(e)
    /\ UNCHANGED <<agent, ctx_root, session_id, request, input, pre, ncmds>>
    /\ UNCHANGED <<svars, hvars>>

\* Free text with the exchange taken as one call that returns Ok or Err:
\* append the user message, run the exchange, then the Ok or the Err arm.
HandleChat(inp, res, save_ok) ==
    /\ Read(inp)
    /\ Arm(inp) = "chat"
    /\ LET msgs1 == add_message(messages, User(inp))
           r     == IF res.kind = "ok"
                    THEN on_response_ok(store, ctx_root, session_id, msgs1,
                                        res.val, save_ok)
                    ELSE on_response_err(store, msgs1, res.val)
       IN  /\ request' = stream_prompt(agent, inp, msgs1)
           /\ result' = res
           /\ messages' = r.messages
           /\ store' = r.store
           /\ out' = <<Line("Thinking", <<>>), Line("kota:", <<>>), Line("", <<>>)>>
                     \o r.out \o <<Line("", <<>>)>>
           /\ trace' = <<"add_message:user", "stream_prompt">> \o r.trace
    /\ turns' = 0
    /\ ret' = "Ok(true)"
    /\ pc' = "idle"
    /\ UNCHANGED session_id

Results == { Ok(reply) : reply \in Replies } \cup { Err(e) : e \in ExchangeErrors }

\* The interactive loop, one input line per step.
Next ==
    \/ \E inp \in Inputs : Quit(inp)
    \/ \E inp \in Inputs : ShowConfig(inp)
    \/ \E inp \in Inputs : ShowHelp(inp)
    \/ \E inp \in Inputs : ShowHistory(inp)
    \/ \E inp \in Inputs, list_ok \in BOOLEAN : ListSessions(inp, list_ok)
    \/ \E inp \in Inputs, save_ok \in BOOLEAN, load_ok \in BOOLEAN :
          LoadSession(inp, save_ok, load_ok)
    \/ \E inp \in Inputs, new_ok \in BOOLEAN, del_ok \in BOOLEAN :
          DeleteSession(inp, new_ok, del_ok)
    \/ \E inp \in Inputs : DeleteUsage(inp)
    \/ \E inp \in Inputs : UnknownCommand(inp)
    \/ \E inp \in Inputs, res \in Results, save_ok \in BOOLEAN :
          HandleChat(inp, res, save_ok)

Spec == Init /\ [][Next]_vars

\* The conversational turns with the exchange opened into its turns.
NextExchange ==
    \/ \E inp \in Inputs : BeginChat(inp)
    \/ ToolCallTurn
    \/ \E reply \in Replies, save_ok \in BOOLEAN : FinalAnswer(reply, save_ok)
    \/ \E e \in ExchangeErrors : ExchangeFailure(e)

SpecExchange == Init /\ [][NextExchange]_vars

\* Message contents for /history, every chunk one character: short, of two
\* lines, of exactly 200 characters, of 201, and of two lines with the cut
\* in the second.
LongContent(n) ==
    [i \in 1..n |-> IF i = 1 THEN "h" ELSE IF i <= HistoryLimit THEN "a" ELSE "b"]

HistoryContents ==
    { <<"h", "i">>,
      <<"h", "i", "\n", "y", "o">>,
      LongContent(HistoryLimit),
      LongContent(HistoryLimit + 1),
      [i \in 1..(HistoryLimit + 50) |-> IF i = 150 THEN "\n" ELSE "c"] }

HistoryMessages ==
    { User(c) : c \in HistoryContents } \cup { Assistant(c) : c \in HistoryContents }

HistoryLogs == UNION { [1..n -> HistoryMessages] : n \in 0..MaxMessages }

\* A session with a log in memory, saved or not, before `/history`.
InitHistory ==
    /\ agent = "OpenAI"
    /\ ctx_root = DefaultRoot
    /\ session_id = <<"s1">>
    /\ messages \in HistoryLogs
    /\ store \in { EmptyStore,
                   [EmptyStore EXCEPT ![<<DefaultRoot, <<"s1">>>>] = Record(messages)] }
    /\ pc = "idle"
    /\ turns = 0
    /\ request = NoRequest
    /\ result = NoResult
    /\ input = <<>>
    /\ ret = "none"
    /\ out = <<>>
    /\ trace = <<>>
    /\ pre = Snapshot
    /\ ncmds = 0
    /\ SearchIdle
    /\ HookIdle

NextHistory == \E inp \in Inputs : ShowHistory(inp)

SpecHistory == InitHistory /\ [][NextHistory]_vars

(* ---------------------------- search actions --------------------------- *)

\* A call of the search tool arrives; the dispatcher is at rest.
InitSearch ==
    /\ agent = "OpenAI"
    /\ ctx_root = DefaultRoot
    /\ session_id = <<"s1">>
    /\ messages = <<>>
    /\ store = EmptyStore
    /\ pc = "exchange"
    /\ turns = 0
    /\ request = NoRequest
    /\ result = NoResult
    /\ input = <<>>
    /\ ret = "pending"
    /\ out = <<>>
    /\ trace = <<>>
    /\ pre = Snapshot
    /\ ncmds = 0
    /\ disk \in Disks
    /\ args \in GrepSearchArgs
    /\ spc = "ready"
    /\ stack = <<>>
    /\ all_matches = <<>>
    /\ files_searched = 0
    /\ output = NoOutput
    /\ opened = <<>>
    /\ scanned = <<>>
    /\ listed = <<>>
    /\ HookIdle

max_results == unwrap_or(args.max_results, DefaultMaxResults)

\* The head of call: an early return, or the walk is set up on root_path.
CallBegin ==
    /\ spc = "ready"
    /\ LET o == call_begin(disk, args)
       IN  IF o.kind = "start"
           THEN /\ spc' = "walk"
                /\ stack' = <<root_entry(disk, args.root_path)>>
                /\ output' = NoOutput
           ELSE /\ spc' = "done"
                /\ stack' = <<>>
                /\ output' = o
    /\ UNCHANGED <<disk, args, all_matches, files_searched, opened, scanned, listed>>
    /\ UNCHANGED <<dvars, hvars>>

\* The walk is about to hand the entry e to the loop body.
Yields(e) ==
    /\ spc = "walk"
    /\ stack # <<>>
    /\ e = Head(stack)
    /\ filter_entry(e.node)

\* The loop body runs on e: the cap is not reached.
Visits(e) ==
    /\ Yields(e)
    /\ Len(all_matches) < max_results

\* filter_entry rejects the next entry: the walk drops it with all below it.
PruneEntry ==
    /\ spc = "walk"
    /\ stack # <<>>
    /\ ~filter_entry(Head(stack).node)
    /\ stack' = Tail(stack)
    /\ UNCHANGED <<disk, args, spc, all_matches, files_searched, output,
                   opened, scanned, listed>>
    /\ UNCHANGED <<dvars, hvars>>

\* call returns what the walk collected.
Return ==
    /\ spc' = "done"
    /\ stack' = <<>>
    /\ output' = call_end(args, all_matches, files_searched)
    /\ UNCHANGED <<disk, args, all_matches, files_searched, opened, scanned, listed>>
    /\ UNCHANGED <<dvars, hvars>>

\* The cap is reached when the next entry arrives: the loop breaks.
BreakAtCap ==
    /\ stack # <<>>
    /\ Yields(Head(stack))
    /\ Len(all_matches) >= max_results
    /\ Return

\* The walk is exhausted.
WalkEnd ==
    /\ spc = "walk"
    /\ stack = <<>>
    /\ Return

\* A directory: the body does nothing, the walk lists it and descends.
VisitDirectory ==
    /\ stack # <<>>
    /\ LET e == Head(stack)
       IN  /\ Visits(e)
           /\ e.node.kind = "dir"
           /\ stack' = read_dir(e) \o Tail(stack)
           /\ listed' = Append(listed, e.path)
    /\ UNCHANGED <<disk, args, spc, all_matches, files_searched, output,
                   opened, scanned>>
    /\ UNCHANGED <<dvars, hvars>>

\* An entry the walk could not access: Err(_) => continue.
SkipWalkError ==
    /\ stack # <<>>
    /\ LET e == Head(stack)
       IN  /\ Visits(e)
           /\ e.node.kind = "error"
           /\ stack' = Tail(stack)
    /\ UNCHANGED <<disk, args, spc, all_matches, files_searched, output,
                   opened, scanned, listed>>
    /\ UNCHANGED <<dvars, hvars>>

\* Neither a directory nor a regular file classified as text: not counted,
\* not opened.
SkipEntry ==
    /\ stack # <<>>
    /\ LET e == Head(stack)
       IN  /\ Visits(e)
           /\ e.node.kind \in { "file", "symlink" }
           /\ ~(e.node.kind = "file" /\ is_text_file(e.node.name))
           /\ stack' = Tail(stack)
    /\ UNCHANGED <<disk, args, spc, all_matches, files_searched, output,
                   opened, scanned, listed>>
    /\ UNCHANGED <<dvars, hvars>>

\* A regular file classified as text: counted, then searched.
SearchFile ==
    /\ stack # <<>>
    /\ LET e == Head(stack)
           r == search_in_file(e.path, e.node, regex_new(args.query).literal,
                               max_results, Len(all_matches))
       IN  /\ Visits(e)
           /\ e.node.kind = "file"
           /\ is_text_file(e.node.name)
           /\ files_searched' = files_searched + 1
           /\ all_matches' = all_matches \o r.matches
           /\ opened' = IF r.opened THEN Append(opened, e.path) ELSE opened
           /\ scanned' = scanned \o [i \in 1..r.scanned |-> <<e.path, i>>]
           /\ stack' = Tail(stack)
    /\ UNCHANGED <<disk, args, spc, output, listed>>
    /\ UNCHANGED <<dvars, hvars>>

NextSearch ==
    \/ CallBegin
    \/ PruneEntry
    \/ BreakAtCap
    \/ WalkEnd
    \/ VisitDirectory
    \/ SkipWalkError
    \/ SkipEntry
    \/ SearchFile

SpecSearch == InitSearch /\ [][NextSearch]_vars

(* ----------------------------- hook actions ---------------------------- *)

\* The hook of the exchange with logging switched to b: the two runs that
\* differ in enable_logging only.
hook(b) == with_logging(SessionIdHook(hook_sid), b)

\* One turn of an exchange is about to be streamed; the dispatcher and
\* the search are at rest.
InitHooks ==
    /\ agent = "OpenAI"
    /\ ctx_root = DefaultRoot
    /\ session_id = <<"s1">>
    /\ messages = <<>>
    /\ store = EmptyStore
    /\ pc = "exchange"
    /\ turns = 0
    /\ request = NoRequest
    /\ result = NoResult
    /\ input = <<>>
    /\ ret = "pending"
    /\ out = <<>>
    /\ trace = <<>>
    /\ pre = Snapshot
    /\ ncmds = 0
    /\ disk = Foo
    /\ args = CHOOSE a \in GrepSearchArgs : TRUE
    /\ spc = "ready"
    /\ stack = <<>>
    /\ all_matches = <<>>
    /\ files_searched = 0
    /\ output = NoOutput
    /\ opened = <<>>
    /\ scanned = <<>>
    /\ listed = <<>>
    /\ hook_sid \in { <<"s1">>, <<"s2">> }
    /\ hprompt \in Prompts
    /\ hstream \in Streams
    /\ husage \in TokenUsages
    /\ htool \in ToolUses
    /\ hpc = "call"
    /\ sent = 0
    /\ aggregated = <<>>
    /\ events = <<>>
    /\ hlog = [b \in BOOLEAN |-> <<>>]
    /\ hpanic = [b \in BOOLEAN |-> FALSE]
    /\ hresponse = [b \in BOOLEAN |-> NoResult]

\* A run goes on until a callback panics in it.
Alive == \E b \in BOOLEAN : ~hpanic[b]

\* A notification point fires: each run that is still alive gets what its
\* callback did.
Notify(point, delta, aggregate, res, next) ==
    /\ Alive
    /\ events' = Append(events, Event(point, delta, aggregate))
    /\ hlog' = [b \in BOOLEAN |->
                   IF hpanic[b] THEN hlog[b] ELSE hlog[b] \o res[b].out]
    /\ hpanic' = [b \in BOOLEAN |-> hpanic[b] \/ res[b].panic]
    /\ hpc' = next

\* What the exchange hands back in each run.
Responses(reply) ==
    [b \in BOOLEAN |-> IF hpanic'[b] THEN NoResult ELSE Ok(reply)]

CompletionCall ==
    /\ hpc = "call"
    /\ Notify("completion_call", <<>>, <<>>,
              [b \in BOOLEAN |-> on_completion_call(hook(b), hprompt, 0)],
              "stream")
    /\ UNCHANGED <<hook_sid, hprompt, hstream, husage, htool, sent, aggregated,
                   hresponse>>
    /\ UNCHANGED <<dvars, svars>>

TextDelta ==
    /\ hpc = "stream"
    /\ sent < Len(hstream)
    /\ LET text_delta == hstream[sent + 1]
           aggregated_text == aggregate_text(aggregated, text_delta)
       IN  /\ Notify("text_delta", text_delta, aggregated_text,
                     [b \in BOOLEAN |->
                         on_text_delta(hook(b), text_delta, aggregated_text)],
                     "stream")
           /\ sent' = sent + 1
           /\ aggregated' = aggregated_text
    /\ UNCHANGED <<hook_sid, hprompt, hstream, husage, htool, hresponse>>
    /\ UNCHANGED <<dvars, svars>>

ToolCallDelta ==
    /\ hpc = "stream"
    /\ sent = Len(hstream)
    /\ htool.some
    /\ \E named \in BOOLEAN :
         Notify("tool_call_delta", <<>>, <<>>,
                [b \in BOOLEAN |->
                    on_tool_call_delta(hook(b),
                        IF htool.id.some THEN htool.id.val ELSE "",
                        IF named THEN SomeStr(htool.name) ELSE NoneStr,
                        htool.targs)],
                "finish")
    /\ UNCHANGED <<hook_sid, hprompt, hstream, husage, htool, sent, aggregated,
                   hresponse>>
    /\ UNCHANGED <<dvars, svars>>

StreamFinish ==
    /\ \/ hpc = "finish"
       \/ hpc = "stream" /\ sent = Len(hstream) /\ ~htool.some
    /\ Notify("stream_finish", <<>>, aggregated,
              [b \in BOOLEAN |->
                  on_stream_completion_response_finish(hook(b), husage)],
              IF htool.some THEN "tool_call" ELSE "end")
    /\ hresponse' = IF htool.some THEN hresponse ELSE Responses(aggregated)
    /\ UNCHANGED <<hook_sid, hprompt, hstream, husage, htool, sent, aggregated>>
    /\ UNCHANGED <<dvars, svars>>

ToolCall ==
    /\ hpc = "tool_call"
    /\ Notify("tool_call", <<>>, <<>>,
              [b \in BOOLEAN |->
                  on_tool_call(hook(b), htool.name, htool.id, htool.targs)],
              "tool_result")
    /\ UNCHANGED <<hook_sid, hprompt, hstream, husage, htool, sent, aggregated,
                   hresponse>>
    /\ UNCHANGED <<dvars, svars>>

ToolResult ==
    /\ hpc = "tool_result"
    /\ Notify("tool_result", <<>>, <<>>,
              [b \in BOOLEAN |->
                  on_tool_result(hook(b), htool.name, htool.targs, htool.tresult)],
              "end")
    /\ UNCHANGED <<hook_sid, hprompt, hstream, husage, htool, sent, aggregated,
                   hresponse>>
    /\ UNCHANGED <<dvars, svars>>

NextHooks ==
    \/ CompletionCall
    \/ TextDelta
    \/ ToolCallDelta
    \/ StreamFinish
    \/ ToolCall
    \/ ToolResult

SpecHooks == InitHooks /\ [][NextHooks]_vars

(* ------------------------------- claims -------------------------------- *)

Range(seq) == { seq[i] : i \in DOMAIN seq }

\* handle_command has returned for the line in `input`.
Done == ret \in { "Ok(true)", "Ok(false)", "Err" }

Called(op) == op \in Range(trace)

Printed(tag) == \E l \in Range(out) : l.tag = tag

\* The line is `/delete <id>`, whatever blanks surround the identifier.
IsDeleteOf(inp, id) ==
    /\ StartsWith(inp, DeletePrefix)
    /\ Trim(StripPrefix(inp, DeletePrefix)) = id

QuitInputs == { <<"/", "quit">>, <<"/", "exit">> }

\* C1: `/delete <id>` with <id> the active session identifier is refused:
\* the store's delete is not invoked, no persisted record is removed or
\* changed, and the active identifier and the in-memory messages stay.
C1_DeleteActiveRefused ==
    (Done /\ IsDeleteOf(input, pre.session_id))
        => /\ ~Called("delete_session")
           /\ Printed("CannotDeleteActive")
           /\ store = pre.store
           /\ session_id = pre.session_id
           /\ messages = pre.messages
           /\ ret = "Ok(true)"

\* C1 witness: the active session has messages and a persisted record on
\* the root `/delete` works on, an earlier command has run, and `/delete`
\* of the active identifier has returned.
C1_Witness ==
    /\ Done
    /\ ncmds >= 2
    /\ IsDeleteOf(input, pre.session_id)
    /\ pre.messages # <<>>
    /\ pre.store[<<DefaultRoot, pre.session_id>>].exists

SaveReportedFailed == Printed("FailedToSaveContext")

ChatCalls ==
    <<"add_message:user", "stream_prompt", "add_message:assistant", "save">>

\* C2 as stated: after a successful exchange the calls were append user,
\* invoke the agent, append assistant, save, in this order; the in-memory
\* log is the earlier log plus exactly the user and the assistant message;
\* when the save succeeded the persisted record of the active session
\* equals the in-memory log.
C2_Original ==
    (Done /\ result.kind = "ok")
        => /\ trace = ChatCalls
           /\ messages = pre.messages \o <<User(input), Assistant(result.val)>>
           /\ ~SaveReportedFailed
                => store[<<ctx_root, session_id>>] = Record(messages)

\* C2 amended: as C2, except that the in-memory log is the earlier log plus
\* the user and the assistant message cut down to the most recent
\* MaxMessages messages (the oldest are evicted at the bound).
C2_ChatSuccess ==
    (Done /\ result.kind = "ok")
        => /\ trace = ChatCalls
           /\ messages = KeepLast(pre.messages
                                  \o <<User(input), Assistant(result.val)>>,
                                  MaxMessages)
           /\ session_id = pre.session_id
           /\ ~SaveReportedFailed
                => store[<<ctx_root, session_id>>] = Record(messages)

\* C2 witness: a successful exchange whose save succeeded, on a log that
\* the two new messages push over the bound.
C2_Witness ==
    /\ Done
    /\ result.kind = "ok"
    /\ ~SaveReportedFailed
    /\ pre.messages # <<>>
    /\ Len(pre.messages) + 2 > MaxMessages

\* C3 as stated: after a failed exchange the in-memory log is the earlier
\* log plus exactly the one user message, no assistant message was
\* appended, no save was made and no persisted record changed.
C3_Original ==
    (Done /\ result.kind = "err")
        => /\ messages = Append(pre.messages, User(input))
           /\ ~Called("add_message:assistant")
           /\ ~Called("save")
           /\ store = pre.store

\* C3 amended: as C3, except that the in-memory log is the earlier log plus
\* the user message cut down to the most recent MaxMessages messages.
C3_ChatFailure ==
    (Done /\ result.kind = "err")
        => /\ messages = KeepLast(Append(pre.messages, User(input)), MaxMessages)
           /\ trace = <<"add_message:user", "stream_prompt">>
           /\ session_id = pre.session_id
           /\ store = pre.store

\* C3 witness: a failed exchange in a session that has a persisted record
\* and whose log was already at the bound.
C3_Witness ==
    /\ Done
    /\ result.kind = "err"
    /\ Len(pre.messages) = MaxMessages
    /\ pre.store[<<ctx_root, pre.session_id>>].exists

\* C4: every conversational turn hands the agent the new input together
\* with the full message history the session had when the line arrived
\* (so a user message left by an earlier failed exchange is sent again).
C4_FullHistorySent ==
    Called("stream_prompt")
        => /\ request.prompt = input
           /\ request.chat_history = pre.messages

\* C5: for each provider variant no exchange runs a 21st turn, an exchange
\* still open has run fewer than 20 turns, and the turn-limit failure is
\* reached after exactly 20 turns, with control back at the dispatcher.
C5_TurnCap ==
    /\ turns <= 20
    /\ pc = "exchange" => turns < 20
    /\ result = Err(<<"MaxDepthError">>)
         => turns = 20 /\ pc = "idle" /\ ret = "Ok(true)"

\* C5 witness: an exchange that asked for tool calls on all of its 20 turns
\* has ended with the turn-limit failure.
C5_Witness ==
    /\ agent = "Ollama"
    /\ turns = 20
    /\ result = Err(<<"MaxDepthError">>)
    /\ pc = "idle"

\* C6: what the dispatcher prints for a failed exchange names the turn
\* limit exactly when the turn limit was the cause, so a turn-limit failure
\* and a provider/network failure give different reports.
C6_TurnLimitDistinct ==
    (Done /\ result.kind = "err")
        => /\ Printed("FailedToGetAIResponse")
           /\ \A l \in Range(out) :
                l.tag = "FailedToGetAIResponse" => l.arg = result.val
           /\ (\E l \in Range(out) : l.arg = <<"MaxDepthError">>)
                <=> result.val = <<"MaxDepthError">>

\* C6 witness: an exchange that failed on the turn limit has been reported.
C6_Witness ==
    /\ Done
    /\ result = Err(<<"MaxDepthError">>)
    /\ \E l \in Range(out) : l.arg = <<"MaxDepthError">>

\* C7: for every line other than the quit commands, whatever store
\* operation or exchange fails, handle_command returns Ok(true).
C7_NoErrorPropagates ==
    (Done /\ input \notin QuitInputs) => ret = "Ok(true)"

\* C8: handle_command returns Ok(false) exactly for `/quit` and `/exit`,
\* and Ok(true) for every other line in any state.
C8_StopIffQuit ==
    Done => /\ ret = "Ok(false)" <=> input \in QuitInputs
            /\ input \notin QuitInputs => ret = "Ok(true)"

CommandWords == { "quit", "exit", "config", "help", "history", "load", "delete" }

NoArgWords == { "quit", "exit", "config", "help", "history" }

\* A slash line that is none of the recognized commands: another word,
\* another letter case, or an argument-less command with extra characters.
Unrecognized(inp) ==
    /\ StartsWith(inp, <<"/">>)
    /\ \/ Len(inp) < 2
       \/ inp[2] \notin CommandWords
       \/ inp[2] \in NoArgWords /\ Len(inp) > 2

\* C9: a line that begins with `/` appends no message and never invokes
\* the agent; when it is not a recognized command it prints the unknown
\* command diagnostic and leaves the session and the store as they were.
C9_SlashNeverChats ==
    (Done /\ StartsWith(input, <<"/">>))
        => /\ ~Called("add_message:user")
           /\ ~Called("add_message:assistant")
           /\ ~Called("stream_prompt")
           /\ request = NoRequest
           /\ Unrecognized(input)
                => /\ Line("UnknownCommand", input) \in Range(out)
                   /\ session_id = pre.session_id
                   /\ messages = pre.messages
                   /\ store = pre.store

\* C9 witness: a recognized name in another letter case has been handled
\* in a session that has messages and a store that has records.
C9_Witness ==
    /\ Done
    /\ input = <<"/", "QUIT">>
    /\ pre.messages # <<>>
    /\ \E k \in DOMAIN pre.store : pre.store[k].exists

\* C10: `/load` with no identifier, with or without trailing blanks, lists
\* the persisted sessions and changes neither session nor store.
C10_BareLoadLists ==
    (Done /\ Trim(input) = <<"/", "load">>)
        => /\ Called("list_sessions")
           /\ session_id = pre.session_id
           /\ messages = pre.messages
           /\ store = pre.store

\* The line is `/load <id>` with a non-empty identifier.
IsLoadOf(inp, id) ==
    /\ id # <<>>
    /\ StartsWith(inp, LoadPrefix)
    /\ Trim(StripPrefix(inp, LoadPrefix)) = id

IsLoad(inp) == \E id \in SessionIds : IsLoadOf(inp, id)

SaveWarned == Printed("WarningFailedToSaveCurrent")

\* C11: `/load <id>` saves the current session, switches, loads, in this
\* order; the earlier messages go under the earlier identifier and nowhere
\* else (a failed save writes nothing), the switch and the load write
\* nothing, the active identifier is <id> afterwards, and when the save
\* succeeded the record of the earlier identifier equals the earlier log.
C11_LoadSavesThenSwitches ==
    \A id \in SessionIds :
        (Done /\ IsLoadOf(input, id))
            => /\ trace = <<"save", "switch_session", "load">>
               /\ session_id = id
               /\ \A k \in DOMAIN store :
                    k # <<ctx_root, pre.session_id>> => store[k] = pre.store[k]
               /\ store[<<ctx_root, pre.session_id>>] =
                    IF SaveWarned THEN pre.store[<<ctx_root, pre.session_id>>]
                    ELSE Record(pre.messages)

\* C11 witness: `/load` of another identifier from a session with messages,
\* the save having succeeded.
C11_Witness ==
    /\ Done
    /\ IsLoad(input)
    /\ ~SaveWarned
    /\ session_id # pre.session_id
    /\ pre.messages # <<>>
    /\ pre.store[<<ctx_root, pre.session_id>>] # Record(pre.messages)

\* `/load <id>` has returned and the store holds no record for <id>.
LoadedFresh ==
    /\ Done
    /\ IsLoad(input)
    /\ ~store[<<ctx_root, session_id>>].exists

\* C12: after `/load <id>` with no persisted record for <id> the active
\* session is <id> with an empty message sequence, and a successful turn
\* that follows persists under <id> only its own two messages.
C12_LoadFreshIsEmpty ==
    /\ [](LoadedFresh
            => /\ IsLoadOf(input, session_id)
               /\ messages = <<>>)
    /\ [][(LoadedFresh /\ result'.kind = "ok" /\ ~SaveReportedFailed')
            => /\ session_id' = session_id
               /\ store'[<<ctx_root, session_id>>] =
                    Record(KeepLast(<<User(input'), Assistant(result'.val)>>,
                                    MaxMessages))]_vars

\* C12 witness: `/load` of an identifier without a record, issued from
\* another session that had messages.
C12_Witness ==
    /\ LoadedFresh
    /\ pre.messages # <<>>
    /\ pre.session_id # session_id

\* C13: a save followed by a load under the same identifier, with no other
\* write under it in between, gives back the saved sequence in the same
\* order with the same roles and contents: within one `/load` of the active
\* identifier, and across `/load` of another session and `/load` back.
C13_SaveLoadRoundTrip ==
    /\ []((/\ Done
           /\ IsLoadOf(input, pre.session_id)
           /\ ~SaveWarned
           /\ Printed("SuccessfullyLoaded"))
            => messages = pre.messages)
    /\ [][(/\ Done
           /\ IsLoad(input)
           /\ ~SaveWarned
           /\ session_id # pre.session_id
           /\ IsLoadOf(input', pre.session_id)
           /\ Printed("SuccessfullyLoaded")')
            => /\ session_id' = pre.session_id
               /\ messages' = pre.messages]_vars

\* C13 witness: a session whose log holds a reply was left by `/load` and
\* has been loaded again from another session.
C13_Witness ==
    /\ Done
    /\ ncmds >= 3
    /\ IsLoadOf(input, session_id)
    /\ Printed("SuccessfullyLoaded")
    /\ pre.session_id # session_id
    /\ \E i \in DOMAIN messages : messages[i].role = "assistant"

\* What a conversational turn appends: the user message, and the reply
\* after a successful exchange.
Appended ==
    IF result.kind = "ok" THEN <<User(input), Assistant(result.val)>>
    ELSE <<User(input)>>

\* C14: the message count never exceeds the bound, in memory or in a
\* record; when a turn's appends would exceed it the count is exactly the
\* bound and the log holds the most recent messages in their order.
C14_MessageBound ==
    /\ Len(messages) <= MaxMessages
    /\ \A k \in DOMAIN store : Len(store[k].msgs) <= MaxMessages
    /\ (Done /\ result.kind # "none"
          /\ Len(pre.messages) + Len(Appended) > MaxMessages)
         => /\ Len(messages) = MaxMessages
            /\ \A i \in 1..MaxMessages :
                 messages[i] =
                   (pre.messages \o Appended)
                     [Len(pre.messages) + Len(Appended) - MaxMessages + i]

\* C14 witness: a successful turn on a log already at the bound.
C14_Witness ==
    /\ Done
    /\ result.kind = "ok"
    /\ Len(pre.messages) = MaxMessages
    /\ messages # pre.messages

RECURSIVE JoinLines(_)
JoinLines(ls) ==
    IF ls = <<>> THEN <<>>
    ELSE IF Len(ls) = 1 THEN ls[1].arg
    ELSE ls[1].arg \o <<"\n">> \o JoinLines(Tail(ls))

\* Positions in `out` of the entry headings, in order.
EntryPositions ==
    SelectSeq([k \in DOMAIN out |-> k], LAMBDA k : out[k].tag = "HistoryEntry")

\* The content lines printed under the n-th heading.
LinesOfEntry(n) ==
    LET from == EntryPositions[n] + 1
        stop == CHOOSE k \in from..Len(out) :
                   /\ out[k].tag # "HistoryLine"
                   /\ \A j \in from..(k - 1) : out[j].tag = "HistoryLine"
    IN  SubSeq(out, from, stop - 1)

\* `/history` has returned.
HistoryShown == Done /\ input = <<"/", "history">>

\* C25: `/history` prints one entry per message, in order and numbered
\* from 1, and the total; an entry shows the whole content when that has
\* at most 200 characters and otherwise its first 200 characters followed
\* by "..."; messages and store are as before.
C25_HistoryShown ==
    HistoryShown
        => /\ messages = pre.messages
           /\ session_id = pre.session_id
           /\ store = pre.store
           /\ Len(EntryPositions) = Len(messages)
           /\ \A n \in DOMAIN messages :
                /\ out[EntryPositions[n]].arg =
                     <<ToString(n), IF messages[n].role = "user"
                                    THEN "User" ELSE "Assistant">>
                /\ JoinLines(LinesOfEntry(n)) =
                     IF Len(messages[n].content) <= 200
                     THEN messages[n].content
                     ELSE SubSeq(messages[n].content, 1, 200) \o <<"...">>
           /\ messages # <<>>
                => \E k \in DOMAIN out :
                      /\ out[k] = Line("TotalMessages", <<ToString(Len(messages))>>)
                      /\ \A n \in DOMAIN EntryPositions : EntryPositions[n] < k

\* C25 witness: `/history` on a log that holds a message of exactly 200
\* characters and one of more.
C25_Witness ==
    /\ HistoryShown
    /\ \E n \in DOMAIN messages : Len(messages[n].content) = 200
    /\ \E n \in DOMAIN messages : Len(messages[n].content) > 200
    /\ store # EmptyStore

\* The record the session store holds for the active identifier when the
\* line arrives, as a message sequence (empty when there is none).
LastPersisted ==
    IF pre.store[<<ctx_root, pre.session_id>>].exists
    THEN pre.store[<<ctx_root, pre.session_id>>].msgs
    ELSE <<>>

LoadFailed == Printed("FailedToLoad")

\* `/load` of the identifier that is active has returned.
SelfLoaded == Done /\ IsLoadOf(input, pre.session_id)

\* C29 as stated: `/load` of the active identifier leaves identifier,
\* messages and record equal to the earlier in-memory state when the save
\* succeeds, and replaces the messages by the last persisted record (or
\* nothing) when the save fails.
C29_Original ==
    SelfLoaded
        => /\ session_id = pre.session_id
           /\ IF ~SaveWarned
              THEN /\ messages = pre.messages
                   /\ store[<<ctx_root, session_id>>] = Record(pre.messages)
              ELSE /\ messages = LastPersisted
                   /\ store = pre.store

\* C29: `/load` of the active identifier keeps the identifier; when save
\* and load succeed, messages and record equal the earlier in-memory log;
\* when the save fails and the load succeeds, the messages are the last
\* persisted record, or none; when the load fails the messages are empty,
\* and the record is the earlier log or untouched as the save went.
C29_SelfLoad ==
    SelfLoaded
        => /\ session_id = pre.session_id
           /\ \A k \in DOMAIN store :
                k # <<ctx_root, session_id>> => store[k] = pre.store[k]
           /\ IF SaveWarned
              THEN store = pre.store
              ELSE store[<<ctx_root, session_id>>] = Record(pre.messages)
           /\ messages = IF LoadFailed THEN <<>>
                         ELSE IF SaveWarned THEN LastPersisted
                         ELSE pre.messages

\* C29 witness: `/load` of the active identifier whose save failed, with
\* messages in memory that the record does not hold.
C29_Witness ==
    /\ SelfLoaded
    /\ SaveWarned
    /\ ~LoadFailed
    /\ pre.messages # <<>>
    /\ messages # pre.messages

Returned == spc = "done"

RootExists == resolve(disk, args.root_path).exists

PatternCompiles == regex_new(args.query).ok

\* call returned Ok with success = true.
Succeeded == Returned /\ output.kind = "Ok" /\ output.success

\* The result the claims ask of a pattern that does not compile.
InvalidPatternResult ==
    /\ output.kind = "Ok"
    /\ ~output.success
    /\ output.matches = <<>>
    /\ output.total_matches = 0
    /\ output.files_searched = 0
    /\ output.message # <<>>
    /\ opened = <<>>
    /\ scanned = <<>>

\* C16 as stated: every pattern that does not compile gets the Ok result
\* with success = false, whatever root_path is.
C16_Original ==
    (Returned /\ ~PatternCompiles) => InvalidPatternResult

\* C16: for a pattern that does not compile and a root_path that exists,
\* call returns Ok with success = false, no match, total_matches = 0,
\* files_searched = 0 and a non-empty message, and reads no file.
C16_InvalidPattern ==
    (Returned /\ ~PatternCompiles /\ RootExists) => InvalidPatternResult

\* C16 witness: a pattern that does not compile, searched from a directory
\* that holds files.
C16_Witness ==
    /\ Returned
    /\ ~PatternCompiles
    /\ RootExists
    /\ resolve(disk, args.root_path).node.children # <<>>

\* C17: when root_path does not exist, call returns FileNotFound carrying
\* root_path, whether or not the pattern compiles, and nothing is listed,
\* opened, scanned or counted.
C17_RootNotFound ==
    (Returned /\ ~RootExists)
        => /\ output = FileNotFound(args.root_path)
           /\ listed = <<>>
           /\ opened = <<>>
           /\ scanned = <<>>
           /\ files_searched = 0
           /\ all_matches = <<>>

\* C17 witness: a missing root_path searched with a pattern that does not
\* compile.
C17_Witness ==
    /\ Returned
    /\ ~RootExists
    /\ ~PatternCompiles

\* A directory name the walk must not descend into.
DeniedName(n) == n \in SkipDirectories \/ StartsWith(n, <<".">>)

\* The path p lies beneath a directory, at or below root_path, whose name is
\* denied.
UnderPruned(p) ==
    \E k \in Len(args.root_path)..(Len(p) - 1) : DeniedName(p[k])

\* Every entry at or below e, pruning aside.
RECURSIVE Below(_)
Below(e) ==
    { e } \cup UNION { Below(Entry(Append(e.path, e.node.children[i].name),
                                   e.node.children[i]))
                       : i \in DOMAIN e.node.children }

\* The regular files at or below root_path.
FilesBelowRoot ==
    IF RootExists
    THEN { e \in Below(root_entry(disk, args.root_path)) : e.node.kind = "file" }
    ELSE {}

FileMatches(e) ==
    LET ls  == content_lines(e.node.content)
        lit == regex_new(args.query).literal
        hit == SelectSeq([i \in DOMAIN ls |-> i],
                         LAMBDA i : regex_find(lit, ls[i]).found)
    IN  [k \in DOMAIN hit |->
            SearchMatch(e.path, hit[k], ls[hit[k]], regex_find(lit, ls[hit[k]]))]

\* What the search returns from e downwards when nothing caps it.
RECURSIVE Uncapped(_)
RECURSIVE UncappedOf(_, _)
Uncapped(e) ==
    IF ~filter_entry(e.node) THEN <<>>
    ELSE IF e.node.kind = "dir" THEN UncappedOf(read_dir(e), 1)
    ELSE IF e.node.kind = "file" /\ is_text_file(e.node.name) /\ e.node.readable
    THEN FileMatches(e)
    ELSE <<>>

UncappedOf(es, i) ==
    IF i > Len(es) THEN <<>> ELSE Uncapped(es[i]) \o UncappedOf(es, i + 1)

UncappedMatches == Uncapped(root_entry(disk, args.root_path))

Take(seq, n) == IF Len(seq) > n THEN SubSeq(seq, 1, n) ELSE seq

\* C19: the matches never outnumber max_results; once their count has
\* reached it the last line scanned is the line of the last match and no
\* file is opened after that match's file (nothing at all for max_results
\* 0); a successful search returns total_matches = length of the match
\* list, the matches being the first max_results of the uncapped search.
C19_CapStopsSearch ==
    /\ Len(all_matches) <= max_results
    /\ (spc \in { "walk", "done" } /\ Len(all_matches) >= max_results)
          => IF max_results = 0
             THEN opened = <<>> /\ scanned = <<>> /\ files_searched = 0
             ELSE LET last == all_matches[Len(all_matches)]
                  IN  /\ path_string(opened[Len(opened)]) = last.file_path
                      /\ path_string(scanned[Len(scanned)][1]) = last.file_path
                      /\ scanned[Len(scanned)][2] = last.line_number
    /\ Succeeded
          => /\ output.total_matches = Len(output.matches)
             /\ output.total_matches <= max_results
             /\ output.matches = Take(UncappedMatches, max_results)

\* C19 witness: a search cut short by the cap in the middle of a file.
C19_Witness ==
    /\ Succeeded
    /\ max_results > 0
    /\ output.total_matches = max_results
    /\ Len(UncappedMatches) > max_results
    /\ UncappedMatches[max_results + 1].file_path
         = output.matches[max_results].file_path

MessageIsZeroForm == Head(output.message) = "No matches found for '"

MessageIsCappedForm ==
    /\ Head(output.message) = "Found "
    /\ output.message[3] = " matches (limit reached) for '"

MessageIsUncappedForm ==
    /\ Head(output.message) = "Found "
    /\ output.message[3] = " matches for '"

\* C20: the message of a successful search is the limit-reached form
\* exactly when total_matches = max_results; otherwise it is the zero-match
\* form for total_matches = 0 and the uncapped form for
\* 0 < total_matches < max_results.
C20_MessageForm ==
    Succeeded
        => /\ MessageIsCappedForm <=> output.total_matches = max_results
           /\ output.total_matches # max_results
                => IF output.total_matches = 0
                   THEN MessageIsZeroForm
                   ELSE MessageIsUncappedForm

\* The entry below root_path that a reported file path names.
EntryOf(file_path) ==
    CHOOSE e \in FilesBelowRoot : path_string(e.path) = file_path

\* C21: every match names a line of its file by its 1-indexed position,
\* carries that whole line, and its offsets delimit the leftmost occurrence
\* of the pattern in the line, with match_start <= match_end <= line
\* length; the matches of one file are in strictly increasing line order,
\* so no two matches share file path and line number.
C21_OneLeftmostMatchPerLine ==
    /\ \A i \in DOMAIN all_matches :
          LET m   == all_matches[i]
              lit == regex_new(args.query).literal
          IN  /\ \E e \in FilesBelowRoot : path_string(e.path) = m.file_path
              /\ LET ls == content_lines(EntryOf(m.file_path).node.content)
                 IN  /\ m.line_number \in 1..Len(ls)
                     /\ m.line_content = ls[m.line_number]
              /\ 0 <= m.match_start
              /\ m.match_start <= m.match_end
              /\ m.match_end <= Len(m.line_content)
              /\ SubSeq(m.line_content, m.match_start + 1, m.match_end) = lit
              /\ \A j \in 1..m.match_start :
                    SubSeq(m.line_content, j, j + Len(lit) - 1) # lit
    /\ \A i, j \in DOMAIN all_matches :
          (i < j /\ all_matches[i].file_path = all_matches[j].file_path)
             => all_matches[i].line_number < all_matches[j].line_number
    /\ Succeeded => output.matches = all_matches

\* C21 witness: a returned match on the third line of a file, the line
\* holding the pattern twice.
C21_Witness ==
    /\ Succeeded
    /\ \E i \in DOMAIN output.matches :
          LET m == output.matches[i]
          IN  /\ m.line_number = 3
              /\ m.match_start = 0
              /\ m.match_end = 3
              /\ SubSeq(m.line_content, 5, 7) = args.query

\* The opened files that could be read as text, that is the scanned ones.
ScannedFiles ==
    { i \in DOMAIN opened :
        \E e \in FilesBelowRoot : e.path = opened[i] /\ e.node.readable }

\* C22: files_searched is the number of files opened and scanned; a file
\* that is not text by name, lies under a pruned directory, cannot be read
\* as text or comes after the cap is not counted, and a file that cannot be
\* read yields no match and no error.
C22_FilesSearchedScanned ==
    /\ files_searched = Cardinality(ScannedFiles)
    /\ \A i \in DOMAIN all_matches :
          EntryOf(all_matches[i].file_path).node.readable
    /\ Succeeded => output.files_searched = files_searched

\* A regular file name classified as text, read off the two lists.
HasExtension(name) == \E i \in 2..Len(name) : name[i] = "."

ClassifiedAsText(name) ==
    IF HasExtension(name)
    THEN /\ name[Len(name) - 1] = "."
         /\ to_lowercase(name[Len(name)]) \in TextExtensions
    ELSE /\ Len(name) = 1
         /\ to_lowercase(name[1]) \in TextFileNames

\* C26: a regular file the walk reaches is opened and counted exactly when
\* it is classified as text: by its lower-cased extension alone when the
\* name has one, by its lower-cased full name when it has none.
C26_TextFilesOnly ==
    /\ \A i \in DOMAIN opened : ClassifiedAsText(opened[i][Len(opened[i])])
    /\ files_searched = Len(opened)
    /\ (Succeeded /\ output.total_matches < max_results)
          => \A e \in FilesBelowRoot :
                ~UnderPruned(e.path)
                   => (e.path \in Range(opened) <=> ClassifiedAsText(e.node.name))

\* C26 witness: a finished search below the cap over the directory that
\* holds y.TXT, README.bin, .gitignore and Notes.
C26_Witness ==
    /\ Succeeded
    /\ output.total_matches < max_results
    /\ \E i \in DOMAIN opened : opened[i][Len(opened[i])] = <<"y", ".", "TXT">>
    /\ \E e \in FilesBelowRoot :
          e.node.name = <<"README", ".", "bin">> /\ ~UnderPruned(e.path)
    /\ \E i \in DOMAIN opened : opened[i][Len(opened[i])] = <<"README">>

\* root_path names a directory whose own name is denied.
RootDenied ==
    /\ RootExists
    /\ resolve(disk, args.root_path).node.kind = "dir"
    /\ DeniedName(args.root_path[Len(args.root_path)])

Fired(point) == SelectSeq(events, LAMBDA e : e.point = point)

\* The position in events of the stream-finish notification, 0 before it.
FinishedAt ==
    IF \E i \in 1..Len(events) : events[i].point = "stream_finish"
    THEN CHOOSE i \in 1..Len(events) : events[i].point = "stream_finish"
    ELSE 0

\* The first k chunks of the stream, concatenated.
RECURSIVE Concat(_)
Concat(k) == IF k = 0 THEN <<>> ELSE Concat(k - 1) \o hstream[k]

\* The stream is over: every chunk was delivered and the finish fired.
StreamOver == hpc \in {"tool_call", "tool_result", "end"}

\* C23: at every notification point and for every argument value the
\* callback returns normally: no run of the exchange is ever aborted by a
\* panic inside the hook.
C23_CallbacksReturn == \A b \in BOOLEAN : ~hpanic[b]

\* The lines a run printed for text fragments and for the end of the
\* stream, in order.
StreamLines(b) ==
    SelectSeq(hlog[b], LAMBDA l :
        l.message[1] \in {"Text delta: ", "Stream completed: "})

\* The fragments that are not blank, in the order they were delivered.
SpokenChunks == SelectSeq(SubSeq(hstream, 1, sent), LAMBDA c : Trim(c) # <<>>)

\* C24: for a streamed response of n text chunks the text-delta point
\* fires once per chunk, the k-th time with the k-th chunk and with the
\* concatenation of the first k chunks as aggregate; the stream-finish
\* point fires once, after all n text deltas; a logging hook prints the
\* fragments it was handed, each non-blank one once and in order, and the
\* completion line last.
C24_DeltasThenFinish ==
    /\ Len(Fired("text_delta")) = sent
    /\ sent <= Len(hstream)
    /\ \A k \in 1..sent :
         /\ Fired("text_delta")[k].delta = hstream[k]
         /\ Fired("text_delta")[k].aggregate = Concat(k)
    /\ Len(Fired("stream_finish")) <= 1
    /\ FinishedAt # 0 =>
         /\ sent = Len(hstream)
         /\ \A i \in 1..Len(events) :
              events[i].point = "text_delta" => i < FinishedAt
    /\ StreamOver => Len(Fired("stream_finish")) = 1
    /\ ~hpanic[TRUE] =>
         /\ Len(StreamLines(TRUE)) = Len(SpokenChunks) + Len(Fired("stream_finish"))
         /\ \A k \in 1..Len(SpokenChunks) :
              StreamLines(TRUE)[k].message = <<"Text delta: ">> \o SpokenChunks[k]
         /\ FinishedAt # 0 =>
              StreamLines(TRUE)[Len(StreamLines(TRUE))].message[1]
                  = "Stream completed: "

\* Three chunks were streamed, one of them blank, and the stream finished.
C24_Witness ==
    /\ StreamOver
    /\ Len(hstream) = MaxChunks
    /\ Len(SpokenChunks) = 2
    /\ hstream[1] # hstream[3]
    /\ ~hpanic[TRUE]

====
